---- MODULE Spec2Model ----
(***************************************************************************)
(* Model of the two components of the repository:                          *)
(*   - TokenExchange.exchange (Solidity), one transaction taken step by    *)
(*     step: pull -> approve -> router swap -> output check, with the      *)
(*     EVM's rollback of every state change when a require fails or an     *)
(*     external call reverts;                                              *)
(*   - the quote script index.ts: the start-up configuration check and     *)
(*     mainExecution's sequence of awaited requests.                       *)
(* The two components do not interact; each has its own specification      *)
(* (SpecExchange, SpecScript) and leaves the other's variables alone.      *)
(***************************************************************************)
EXTENDS Integers, Sequences, FiniteSets, TLC

\* ------------------------------------------------------------------------
\* Bounds of the model
\* ------------------------------------------------------------------------
\* Largest token amount an account starts with and a call may name.
MaxAmount == 2
\* Number of exchange transactions in one behaviour.
MaxCalls == 1
\* Largest decimals() answer of the sell token the script is run against.
MaxDecimals == 3

\* ------------------------------------------------------------------------
\* Program constants
\* ------------------------------------------------------------------------
\* feeRate: 3000 in swapDetails.
FeeRate == 3000
\* priceLimit: 0 in swapDetails.
PriceLimit == 0

\* ========================================================================
\*  Part 1: TokenExchange.exchange
\* ========================================================================

\* msg.sender of exchange.
Caller == "caller"
\* address(this).
This == "contract"
\* address(router), set by the constructor.
Router == "router"
\* A fourth account.
Other == "receiver"

Parties == {Caller, This, Router, Other}
\* The accounts whose tokens exchange has moved on their behalf, and the
\* accounts that move them: the allowances the call reads or writes.
Owners == {Caller, This}
Spenders == {This, Router}
Tokens == {"tokenA", "tokenB"}

\* The require messages of exchange.
TransferFailed == "Token transfer failed"
ApprovalFailed == "Approval failed"
InsufficientOutput == "Insufficient output"
\* An external call that reverts: its own error bubbles up through exchange.
TokenReverted == "reverted by token"
RouterReverted == "reverted by router"

VARIABLES
    balance,      \* balance[t][p]: balanceOf(p) in token t
    allowance,    \* allowance[t][o][s]: allowance(o, s) in token t
    pc,           \* position inside exchange
    args,         \* the arguments of the current (or last) call
    pre,          \* the ledger when the current (or last) call started
    blockTime,    \* block.timestamp of the current transaction
    outputAmount, \* what swapExactInputSingle returned, -1 before it returns
    result,       \* how the last call ended
    steps,        \* external calls made by the current (or last) call, with their results
    swapCalls,    \* invocations of router.swapExactInputSingle by the current (or last) call
    calls,        \* number of transactions started so far
    \* --- script ---
    env,          \* process.env: which of the three values are defined
    spc,          \* position inside index.ts
    events,       \* requests issued and console output, in order
    wethDecimals, \* answer of wethContract.read.decimals()
    priceQueryParams,  \* the URLSearchParams of the price request
    quoteQueryParams,  \* the URLSearchParams of the quote request
    priceData,    \* the parsed price response
    thrown        \* the step whose error escaped mainExecution, "none" if none

exVars == <<balance, allowance, pc, args, pre, blockTime, outputAmount, result,
            steps, swapCalls, calls>>
scVars == <<env, spc, events, wethDecimals, priceQueryParams, quoteQueryParams,
            priceData, thrown>>
vars == <<exVars, scVars>>

Ledger == [balance |-> balance, allowance |-> allowance]

NoArgs == [inputToken |-> "tokenA", outputToken |-> "tokenA", inputAmount |-> 0,
           minOutput |-> 0, receiver |-> Caller]

\* ---- IERC20 (external token contracts, ERC-20 behaviour) -----------------

\* transferFrom(from, to, amount) called by spender can succeed.
CanTransferFrom(L, t, spender, from, amount) ==
    /\ L.allowance[t][from][spender] >= amount
    /\ L.balance[t][from] >= amount

\* The ledger after a successful transferFrom(from, to, amount) by spender.
DoTransferFrom(L, t, spender, from, to, amount) ==
    LET b1 == [L.balance EXCEPT ![t][from] = @ - amount]
        b2 == [b1 EXCEPT ![t][to] = @ + amount]
    IN  [balance |-> b2,
         allowance |-> [L.allowance EXCEPT ![t][from][spender] = @ - amount]]

\* The ledger after a successful transfer(to, amount) by from.
DoTransfer(L, t, from, to, amount) ==
    LET b1 == [L.balance EXCEPT ![t][from] = @ - amount]
    IN  [L EXCEPT !.balance = [b1 EXCEPT ![t][to] = @ + amount]]

\* The ledger after a successful approve(spender, amount) by owner.
DoApprove(L, t, owner, spender, amount) ==
    [L EXCEPT !.allowance[t][owner][spender] = amount]

\* What an external call that returns bool can do: return true, return
\* false, or revert.
BoolOutcomes == {"true", "false", "revert"}

\* ---- the EVM's rollback --------------------------------------------------

\* A failed require, or a revert of an external call that is not caught:
\* every state change of the transaction is undone.
Revert(reason) ==
    /\ balance' = pre.balance
    /\ allowance' = pre.allowance
    /\ result' = reason
    /\ pc' = "Idle"

\* The ledger exchange is first called on: the caller and the router hold
\* tokens, the caller has pre-authorized the contract for some amount a, and
\* the contract holds what was sent to it before (nothing, or a stray unit).
InitExchange ==
    /\ balance \in {[t \in Tokens |-> [p \in Parties |->
                         IF p \in {Caller, Router} THEN MaxAmount
                         ELSE IF p = This THEN c ELSE 0]] : c \in {0, 1}}
    /\ allowance \in {[t \in Tokens |-> [o \in Owners |-> [s \in Spenders |->
                         IF o = Caller /\ s = This THEN a ELSE 0]]] :
                      a \in 0..MaxAmount}
    /\ pc = "Idle"
    /\ args = NoArgs
    /\ pre = Ledger
    /\ blockTime = 1
    /\ outputAmount = -1
    /\ result = "none"
    /\ steps = <<>>
    /\ swapCalls = <<>>
    /\ calls = 0

\* exchange(inputToken, outputToken, inputAmount, minOutput, receiver) is
\* called by Caller in a new transaction.
StartCall ==
    /\ pc = "Idle"
    /\ calls < MaxCalls
    /\ \E it \in Tokens, ot \in Tokens, ia \in 0..MaxAmount, mo \in 0..MaxAmount,
          rc \in Parties :
          args' = [inputToken |-> it, outputToken |-> ot, inputAmount |-> ia,
                   minOutput |-> mo, receiver |-> rc]
    /\ pre' = Ledger
    /\ blockTime' = blockTime + 1
    /\ outputAmount' = -1
    /\ result' = "pending"
    /\ steps' = <<>>
    /\ swapCalls' = <<>>
    /\ calls' = calls + 1
    /\ pc' = "Transferring"
    /\ UNCHANGED <<balance, allowance>>
    /\ UNCHANGED scVars

\* Mutant of Transfer: the returned bool is not required to be true.
TransferUnchecked ==
    /\ pc = "Transferring"
    /\ \E r \in BoolOutcomes :
          /\ r = "true" => CanTransferFrom(Ledger, args.inputToken, This, Caller,
                                           args.inputAmount)
          /\ steps' = Append(steps, [op |-> "transferFrom", ret |-> r])
          /\ CASE r = "true" ->
                    LET L == DoTransferFrom(Ledger, args.inputToken, This, Caller, This,
                                            args.inputAmount)
                    IN  /\ balance' = L.balance
                        /\ allowance' = L.allowance
                        /\ pc' = "Approving"
                        /\ UNCHANGED result
               [] r = "false" -> /\ pc' = "Approving"
                                 /\ UNCHANGED <<balance, allowance, result>>
               [] r = "revert" -> Revert(TokenReverted)
    /\ UNCHANGED <<args, pre, blockTime, outputAmount, swapCalls, calls>>
    /\ UNCHANGED scVars

\* require(IERC20(inputToken).transferFrom(msg.sender, address(this), inputAmount),
\*         "Token transfer failed");
Transfer ==
    /\ pc = "Transferring"
    /\ \E r \in BoolOutcomes :
          /\ r = "true" => CanTransferFrom(Ledger, args.inputToken, This, Caller,
                                           args.inputAmount)
          /\ steps' = Append(steps, [op |-> "transferFrom", ret |-> r])
          /\ CASE r = "true" ->
                    LET L == DoTransferFrom(Ledger, args.inputToken, This, Caller, This,
                                            args.inputAmount)
                    IN  /\ balance' = L.balance
                        /\ allowance' = L.allowance
                        /\ pc' = "Approving"
                        /\ UNCHANGED result
               [] r = "false" -> Revert(TransferFailed)
               [] r = "revert" -> Revert(TokenReverted)
    /\ UNCHANGED <<args, pre, blockTime, outputAmount, swapCalls, calls>>
    /\ UNCHANGED scVars

\* Mutant of Approve: the returned bool is not required to be true.
ApproveUnchecked ==
    /\ pc = "Approving"
    /\ \E r \in BoolOutcomes :
          /\ steps' = Append(steps, [op |-> "approve", ret |-> r])
          /\ CASE r = "true" ->
                    LET L == DoApprove(Ledger, args.inputToken, This, Router,
                                       args.inputAmount)
                    IN  /\ balance' = L.balance
                        /\ allowance' = L.allowance
                        /\ pc' = "Swapping"
                        /\ UNCHANGED result
               [] r = "false" -> /\ pc' = "Swapping"
                                 /\ UNCHANGED <<balance, allowance, result>>
               [] r = "revert" -> Revert(TokenReverted)
    /\ UNCHANGED <<args, pre, blockTime, outputAmount, swapCalls, calls>>
    /\ UNCHANGED scVars

\* require(IERC20(inputToken).approve(address(router), inputAmount), "Approval failed");
Approve ==
    /\ pc = "Approving"
    /\ \E r \in BoolOutcomes :
          /\ steps' = Append(steps, [op |-> "approve", ret |-> r])
          /\ CASE r = "true" ->
                    LET L == DoApprove(Ledger, args.inputToken, This, Router,
                                       args.inputAmount)
                    IN  /\ balance' = L.balance
                        /\ allowance' = L.allowance
                        /\ pc' = "Swapping"
                        /\ UNCHANGED result
               [] r = "false" -> Revert(ApprovalFailed)
               [] r = "revert" -> Revert(TokenReverted)
    /\ UNCHANGED <<args, pre, blockTime, outputAmount, swapCalls, calls>>
    /\ UNCHANGED scVars

\* Mutant of SwapDetails: the output goes to msg.sender, not to receiver.
SwapDetailsToSender ==
    [tokenFrom |-> args.inputToken,
     tokenTo |-> args.outputToken,
     feeRate |-> FeeRate,
     recipient |-> Caller,
     deadline |-> blockTime,
     inputAmount |-> args.inputAmount,
     minOutputAmount |-> args.minOutput,
     priceLimit |-> PriceLimit]

\* Mutant of SwapDetails: inputAmount and minOutputAmount are mixed up.
SwapDetailsAmountsMixed ==
    [tokenFrom |-> args.inputToken,
     tokenTo |-> args.outputToken,
     feeRate |-> FeeRate,
     recipient |-> args.receiver,
     deadline |-> blockTime,
     inputAmount |-> args.minOutput,
     minOutputAmount |-> args.inputAmount,
     priceLimit |-> PriceLimit]

\* Mutant of SwapDetails: no deadline at all.
SwapDetailsNoDeadline ==
    [tokenFrom |-> args.inputToken,
     tokenTo |-> args.outputToken,
     feeRate |-> FeeRate,
     recipient |-> args.receiver,
     deadline |-> 0,
     inputAmount |-> args.inputAmount,
     minOutputAmount |-> args.minOutput,
     priceLimit |-> PriceLimit]

\* ISwapRouter.SwapSingleParams memory swapDetails = ...
SwapDetails ==
    [tokenFrom |-> args.inputToken,
     tokenTo |-> args.outputToken,
     feeRate |-> FeeRate,
     recipient |-> args.receiver,
     deadline |-> blockTime,
     inputAmount |-> args.inputAmount,
     minOutputAmount |-> args.minOutput,
     priceLimit |-> PriceLimit]

\* ---- ISwapRouter (external router) ---------------------------------------

\* swapExactInputSingle(p) called by sender can return: the router (a
\* Uniswap V3 router, which has pools only for pairs of two different
\* tokens) takes exactly p.inputAmount of p.tokenFrom out of the sender's
\* allowance and pays the output from the holdings it trades against.
\* Whether the output reaches p.minOutputAmount is left to the caller: the
\* router may return any amount it can pay.
RouterCanSwap(L, sender, p, out) ==
    /\ p.tokenFrom # p.tokenTo
    /\ CanTransferFrom(L, p.tokenFrom, Router, sender, p.inputAmount)
    /\ out <= L.balance[p.tokenTo][Router]

\* The ledger after swapExactInputSingle(p) returned out.
RouterSwap(L, sender, p, out) ==
    DoTransfer(DoTransferFrom(L, p.tokenFrom, Router, sender, Router, p.inputAmount),
               p.tokenTo, Router, p.recipient, out)

\* uint256 outputAmount = router.swapExactInputSingle(swapDetails);
Swap ==
    /\ pc = "Swapping"
    /\ LET p == SwapDetails
           call == [params |-> p, routerAllowance |-> allowance[p.tokenFrom][This][Router],
                    before |-> steps]
       IN  /\ swapCalls' = Append(swapCalls, call)
           /\ \/ \E out \in 0..MaxAmount :
                    /\ RouterCanSwap(Ledger, This, p, out)
                    /\ LET L == RouterSwap(Ledger, This, p, out)
                       IN  /\ balance' = L.balance
                           /\ allowance' = L.allowance
                    /\ outputAmount' = out
                    /\ steps' = Append(steps, [op |-> "swapExactInputSingle", ret |-> "returned"])
                    /\ pc' = "Verifying"
                    /\ UNCHANGED result
              \/ /\ steps' = Append(steps, [op |-> "swapExactInputSingle", ret |-> "revert"])
                 /\ Revert(RouterReverted)
                 /\ UNCHANGED outputAmount
    /\ UNCHANGED <<args, pre, blockTime, calls>>
    /\ UNCHANGED scVars

\* Mutant of Verify: the output is not checked against minOutput.
VerifyMissing ==
    /\ pc = "Verifying"
    /\ steps' = Append(steps, [op |-> "require", ret |-> "true"])
    /\ result' = "success"
    /\ pc' = "Idle"
    /\ UNCHANGED <<balance, allowance>>
    /\ UNCHANGED <<args, pre, blockTime, outputAmount, swapCalls, calls>>
    /\ UNCHANGED scVars

\* require(outputAmount >= minOutput, "Insufficient output");
Verify ==
    /\ pc = "Verifying"
    /\ steps' = Append(steps, [op |-> "require", ret |->
                                 IF outputAmount >= args.minOutput THEN "true" ELSE "false"])
    /\ IF outputAmount >= args.minOutput
       THEN /\ result' = "success"
            /\ pc' = "Idle"
            /\ UNCHANGED <<balance, allowance>>
       ELSE Revert(InsufficientOutput)
    /\ UNCHANGED <<args, pre, blockTime, outputAmount, swapCalls, calls>>
    /\ UNCHANGED scVars

NextExchange ==
    \/ StartCall
    \/ Transfer
    \/ Approve
    \/ Swap
    \/ Verify

\* ========================================================================
\*  Part 2: the quote script (index.ts)
\* ========================================================================

\* scroll.id, the chain of walletClient.
ScrollChainId == 534352

EnvKeys == {"PRIVATE_KEY", "ZERO_EX_API_KEY", "ALCHEMY_HTTP_TRANSPORT_URL"}
\* What process.env holds for a key: nothing, the empty string, or a value.
EnvValues == {"undefined", "empty", "set"}

\* !v for a value of process.env.
Not(v) == v \in {"undefined", "empty"}

\* wethContract.address and wstEthContract.address.
WethAddress == "0x5300000000000000000000000000000000000004"
WstEthAddress == "0xf610A9dfB7C89644979b4A0f27063E9e7d7Cda32"
\* walletClient.account.address, derived from PRIVATE_KEY.
TakerAddress == "0xTAKER"
\* The spenders a price response may report in issues.allowance.spender.
ReportedSpenders == {"0xPERMIT2", "0xSPENDER"}

\* The steps of the script, in the order of the code.
ScriptSteps == <<"sources", "decimals", "price", "approval", "quote", "print">>
StepRank(st) == CHOOSE i \in 1..Len(ScriptSteps) : ScriptSteps[i] = st

\* 10^n
RECURSIVE Pow10(_)
Pow10(n) == IF n = 0 THEN 1 ELSE 10 * Pow10(n - 1)

\* parseUnits("0.1", decimals): 0.1 scaled by 10^decimals; with no decimals
\* the fraction .1 is rounded away.
ParseUnitsTenth(decimals) == IF decimals = 0 THEN 0 ELSE Pow10(decimals - 1)

\* URLSearchParams.toString(): key=value pairs joined by &.
RECURSIVE QueryString(_)
QueryString(params) ==
    IF params = <<>> THEN ""
    ELSE LET head == params[1][1] \o "=" \o params[1][2]
         IN  IF Len(params) = 1 THEN head
             ELSE head \o "&" \o QueryString(Tail(params))

\* new URLSearchParams({chainId, sellToken, buyToken, sellAmount, taker,
\* affiliateFee, surplusCollection}): the entries in insertion order.
PriceParams(amountToSell) ==
    << <<"chainId", ToString(ScrollChainId)>>,
       <<"sellToken", WethAddress>>,
       <<"buyToken", WstEthAddress>>,
       <<"sellAmount", ToString(amountToSell)>>,
       <<"taker", TakerAddress>>,
       <<"affiliateFee", "100">>,
       <<"surplusCollection", "true">> >>

\* Mutant of CopyEntries: the loop stops one entry early.
RECURSIVE CopyEntriesShort(_, _)
CopyEntriesShort(from, to) ==
    IF Len(from) <= 1 THEN to
    ELSE CopyEntriesShort(Tail(from), Append(to, <<from[1][1], from[1][2]>>))

\* for (const [key, value] of priceQueryParams.entries())
\*     quoteQueryParams.append(key, value);
RECURSIVE CopyEntries(_, _)
CopyEntries(from, to) ==
    IF from = <<>> THEN to
    ELSE CopyEntries(Tail(from), Append(to, <<from[1][1], from[1][2]>>))

\* An awaited request of step st (data: its query string, call or spender)
\* and whether it came back good; a line printed by step st.
Request(st, what, d, good) == [step |-> st, kind |-> what, data |-> d, ok |-> good]
Log(st, d) == [step |-> st, kind |-> "log", data |-> d, ok |-> TRUE]
LogError(st, d) == [step |-> st, kind |-> "error", data |-> d, ok |-> TRUE]

\* An error that nothing catches: mainExecution's promise rejects and the
\* rest of the function does not run.
Throw(st) == spc' = "rejected" /\ thrown' = st

InitScript ==
    /\ env \in [EnvKeys -> EnvValues]
    /\ spc = "start"
    /\ events = <<>>
    /\ wethDecimals = 0
    /\ priceQueryParams = <<>>
    /\ quoteQueryParams = <<>>
    /\ priceData = [shape |-> "none", spender |-> "none"]
    /\ thrown = "none"

\* Mutant of CheckEnv: the RPC endpoint URL is not checked.
CheckEnvNoRpc ==
    /\ spc = "start"
    /\ spc' = IF Not(env["PRIVATE_KEY"]) \/ Not(env["ZERO_EX_API_KEY"])
              THEN "fatal" ELSE "setup"
    /\ UNCHANGED <<env, events, wethDecimals, priceQueryParams, quoteQueryParams,
                   priceData, thrown>>
    /\ UNCHANGED exVars

\* initializeEnv(); if (!PRIVATE_KEY) throw ...; if (!ZERO_EX_API_KEY) throw ...;
\* if (!ALCHEMY_HTTP_TRANSPORT_URL) throw ...;
CheckEnv ==
    /\ spc = "start"
    /\ spc' = IF \/ Not(env["PRIVATE_KEY"])
                 \/ Not(env["ZERO_EX_API_KEY"])
                 \/ Not(env["ALCHEMY_HTTP_TRANSPORT_URL"])
              THEN "fatal" ELSE "setup"
    /\ UNCHANGED <<env, events, wethDecimals, priceQueryParams, quoteQueryParams,
                   priceData, thrown>>
    /\ UNCHANGED exVars

\* requestHeaders, walletClient (privateKeyToAccount throws on a malformed
\* key), getAddresses of the local account, the two contract instances, and
\* the call of mainExecution.
Setup ==
    /\ spc = "setup"
    /\ \E good \in BOOLEAN : spc' = IF good THEN "sources" ELSE "fatal"
    /\ UNCHANGED <<env, events, wethDecimals, priceQueryParams, quoteQueryParams,
                   priceData, thrown>>
    /\ UNCHANGED exVars

\* await fetchLiquiditySources(): the sources request, its JSON and the
\* printed list; a failed fetch, bad JSON or a body without sources throws.
FetchLiquiditySources ==
    /\ spc = "sources"
    /\ LET req(good) == Request("sources", "request",
                                "chainId=" \o ToString(ScrollChainId), good)
       IN  \/ /\ events' = events \o <<req(TRUE), Log("sources", "Liquidity Sources on Scroll:")>>
              /\ spc' = "decimals"
              /\ UNCHANGED thrown
           \/ /\ events' = Append(events, req(FALSE))
              /\ Throw("sources")
    /\ UNCHANGED <<env, wethDecimals, priceQueryParams, quoteQueryParams, priceData>>
    /\ UNCHANGED exVars

\* const wethDecimals = await wethContract.read.decimals();
ReadDecimals ==
    /\ spc = "decimals"
    /\ \/ /\ \E d \in 0..MaxDecimals : wethDecimals' = d
          /\ events' = Append(events, Request("decimals", "request", "decimals()", TRUE))
          /\ spc' = "price"
          /\ UNCHANGED thrown
       \/ /\ events' = Append(events, Request("decimals", "request", "decimals()", FALSE))
          /\ Throw("decimals")
          /\ UNCHANGED wethDecimals
    /\ UNCHANGED <<env, priceQueryParams, quoteQueryParams, priceData>>
    /\ UNCHANGED exVars

\* The bodies a price response can have: issues.allowance null, undefined
\* or an object naming a spender, or a body without issues.
PriceBodies ==
    {[shape |-> sh, spender |-> "none"] : sh \in {"noIssues", "null", "undefined"}}
    \cup {[shape |-> "object", spender |-> sp] : sp \in ReportedSpenders}

\* priceQueryParams, the price request, priceData = await priceResponse.json()
\* and its printing.
PriceRequest ==
    /\ spc = "price"
    /\ LET params == PriceParams(ParseUnitsTenth(wethDecimals))
           req(good) == Request("price", "request",
                                QueryString(params), good)
       IN  /\ priceQueryParams' = params
           /\ \/ /\ \E body \in PriceBodies : priceData' = body
                 /\ events' = events \o
                        <<req(TRUE), Log("price", "Price data for swapping 0.1 WETH for wstETH:")>>
                 /\ spc' = "allowance"
                 /\ UNCHANGED thrown
              \/ /\ events' = Append(events, req(FALSE))
                 /\ Throw("price")
                 /\ UNCHANGED priceData
    /\ UNCHANGED <<env, wethDecimals, quoteQueryParams>>
    /\ UNCHANGED exVars

\* Mutant of AllowanceCheck: the test is inverted (=== null).
AllowanceCheckInverted ==
    /\ spc = "allowance"
    /\ CASE priceData.shape = "noIssues" ->
                /\ Throw("price")
                /\ UNCHANGED events
         [] priceData.shape # "null" ->
                /\ events' = Append(events, Log("approval", "No Permit2 approval required for WETH."))
                /\ spc' = "quote"
                /\ UNCHANGED thrown
         [] OTHER ->
                /\ spc' = "simulate"
                /\ UNCHANGED <<events, thrown>>
    /\ UNCHANGED <<env, wethDecimals, priceQueryParams, quoteQueryParams, priceData>>
    /\ UNCHANGED exVars

\* if (priceData.issues.allowance !== null) { try { ... } } else { console.log(...) }
AllowanceCheck ==
    /\ spc = "allowance"
    /\ CASE priceData.shape = "noIssues" ->
                \* priceData.issues is undefined: reading .allowance throws
                /\ Throw("price")
                /\ UNCHANGED events
         [] priceData.shape = "null" ->
                /\ events' = Append(events, Log("approval", "No Permit2 approval required for WETH."))
                /\ spc' = "quote"
                /\ UNCHANGED thrown
         [] OTHER ->
                /\ spc' = "simulate"
                /\ UNCHANGED <<events, thrown>>
    /\ UNCHANGED <<env, wethDecimals, priceQueryParams, quoteQueryParams, priceData>>
    /\ UNCHANGED exVars

\* Mutant of SimulateApprove: no try/catch around the approval.
SimulateApproveUncaught ==
    /\ spc = "simulate"
    /\ IF priceData.shape = "undefined"
       THEN /\ Throw("approval")
            /\ UNCHANGED events
       ELSE LET req(good) == Request("approval", "simulate", priceData.spender, good)
            IN  \/ /\ events' = events \o
                          <<req(TRUE), Log("approval", "Initiating approval for Permit2 to use WETH...")>>
                   /\ spc' = "write"
                   /\ UNCHANGED thrown
                \/ /\ events' = Append(events, req(FALSE))
                   /\ Throw("approval")
    /\ UNCHANGED <<env, wethDecimals, priceQueryParams, quoteQueryParams, priceData>>
    /\ UNCHANGED exVars

\* try { approvalSimulation = await wethContract.simulate.approve(
\*           [priceData.issues.allowance.spender, maxUint256]); console.log(...)
\* } catch (approvalError) { console.error(...) }
SimulateApprove ==
    /\ spc = "simulate"
    /\ IF priceData.shape = "undefined"
       THEN \* issues.allowance.spender throws inside the try
            /\ events' = Append(events, LogError("approval", "Permit2 approval error:"))
            /\ spc' = "quote"
       ELSE LET req(good) == Request("approval", "simulate", priceData.spender, good)
            IN  \/ /\ events' = events \o
                          <<req(TRUE), Log("approval", "Initiating approval for Permit2 to use WETH...")>>
                   /\ spc' = "write"
                \/ /\ events' = events \o
                          <<req(FALSE), LogError("approval", "Permit2 approval error:")>>
                   /\ spc' = "quote"
    /\ UNCHANGED <<env, wethDecimals, priceQueryParams, quoteQueryParams, priceData, thrown>>
    /\ UNCHANGED exVars

\* try { ... hash = await wethContract.write.approve(approvalSimulation.args);
\*       console.log(...) } catch (approvalError) { console.error(...) }
WriteApprove ==
    /\ spc = "write"
    /\ LET req(good) == Request("approval", "write", "approvalSimulation.args", good)
       IN  \/ events' = events \o
                  <<req(TRUE), Log("approval", "Permit2 approval transaction hash:")>>
           \/ events' = events \o
                  <<req(FALSE), LogError("approval", "Permit2 approval error:")>>
    /\ spc' = "quote"
    /\ UNCHANGED <<env, wethDecimals, priceQueryParams, quoteQueryParams, priceData, thrown>>
    /\ UNCHANGED exVars

\* quoteQueryParams copied from priceQueryParams, the quote request,
\* quoteData = await quoteResponse.json() and its printing.
QuoteRequest ==
    /\ spc = "quote"
    /\ LET params == CopyEntries(priceQueryParams, <<>>)
           req(good) == Request("quote", "request",
                                QueryString(params), good)
       IN  /\ quoteQueryParams' = params
           /\ \/ /\ events' = events \o
                        <<req(TRUE), Log("quote", "Quote data for swapping 0.1 WETH for wstETH:")>>
                 /\ spc' = "print"
                 /\ UNCHANGED thrown
              \/ /\ events' = Append(events, req(FALSE))
                 /\ Throw("quote")
    /\ UNCHANGED <<env, wethDecimals, priceQueryParams, priceData>>
    /\ UNCHANGED exVars

\* The derived metrics: printLiquidityBreakdown, showTokenTaxInfo, the
\* affiliate fee and the trade surplus; a malformed route or tokenMetadata
\* throws.
PrintMetrics ==
    /\ spc = "print"
    /\ \/ /\ events' = Append(events, Log("print", "metrics"))
          /\ spc' = "done"
          /\ UNCHANGED thrown
       \/ /\ Throw("print")
          /\ UNCHANGED events
    /\ UNCHANGED <<env, wethDecimals, priceQueryParams, quoteQueryParams, priceData>>
    /\ UNCHANGED exVars

NextScript ==
    \/ CheckEnv
    \/ Setup
    \/ FetchLiquiditySources
    \/ ReadDecimals
    \/ PriceRequest
    \/ AllowanceCheck
    \/ SimulateApprove
    \/ WriteApprove
    \/ QuoteRequest
    \/ PrintMetrics

\* The script before it is run, for the behaviours of exchange alone.
ScriptIdle ==
    /\ InitScript
    /\ \A k \in EnvKeys : env[k] = "set"

\* The ledger before any call, for the behaviours of the script alone.
ExchangeIdle ==
    /\ InitExchange
    /\ \A t \in Tokens : balance[t][This] = 0 /\ allowance[t][Caller][This] = 0

\* exchange alone: the calls of one caller, one transaction at a time.
InitE == InitExchange /\ ScriptIdle
SpecExchange == InitE /\ [][NextExchange]_vars

\* The script alone: one run of index.ts.
InitS == InitScript /\ ExchangeIdle
SpecScript == InitS /\ [][NextScript]_vars


\* ------------------------------------------------------------------------
\*  Claims about exchange
\* ------------------------------------------------------------------------

\* The call has ended (by returning or by reverting).
Ended == calls > 0 /\ pc = "Idle"

\* The ledger is what it was when the call started.
RolledBack == balance = pre.balance /\ allowance = pre.allowance

\* The external calls made so far, by name.
Ops == [i \in 1..Len(steps) |-> steps[i].op]

\* The external call op was made and came back with ret.
Made(op, ret) == \E i \in 1..Len(steps) : steps[i] = [op |-> op, ret |-> ret]

\* The router returned an output below minOutput.
OutputShort == outputAmount >= 0 /\ outputAmount < args.minOutput

\* C1: whenever the router's swapExactInputSingle returned an output strictly
\* below minOutput, the call never succeeds, and once it has ended it has
\* failed with "Insufficient output" and every balance and allowance is what
\* it was before the call.
C1_ShortOutputRollsBack ==
    OutputShort =>
        /\ result # "success"
        /\ Ended => result = InsufficientOutput /\ RolledBack

\* C1 witness: the router took 1 or more input tokens and paid 1 or more
\* output tokens, less than minOutput, and the call ended reverted.
C1_Witness ==
    /\ Ended /\ OutputShort
    /\ outputAmount > 0 /\ args.inputAmount > 0
    /\ result = InsufficientOutput

\* The router returned an output of at least minOutput and the call ended.
OutputEnough == Ended /\ outputAmount >= 0 /\ outputAmount >= args.minOutput

\* The caller's inputToken balance went down by exactly inputAmount.
CallerPaid ==
    balance[args.inputToken][Caller] = pre.balance[args.inputToken][Caller] - args.inputAmount

\* The receiver's outputToken balance went up by exactly the router's output.
ReceiverGot ==
    balance[args.outputToken][args.receiver] =
        pre.balance[args.outputToken][args.receiver] + outputAmount

AllowanceShort ==
    calls > 0 /\ pre.allowance[args.inputToken][Caller][This] < args.inputAmount

\* What C3 says besides the error: the call gets no further than the pull,
\* no approval is asked for, the router is not invoked, nothing changes.
C3_NothingHappens ==
    /\ pc \in {"Transferring", "Idle"}
    /\ swapCalls = <<>>
    /\ \A i \in 1..Len(steps) : steps[i].op = "transferFrom" /\ steps[i].ret # "true"
    /\ allowance = pre.allowance
    /\ balance = pre.balance

\* C3 as stated: if the caller's allowance is below inputAmount the call fails
\* with "Token transfer failed", the router is never invoked, no approval is
\* granted and no balance or allowance changes.
C3_AsStated ==
    AllowanceShort => C3_NothingHappens /\ (Ended => result = TransferFailed)

\* C3 amended: the same, but the call fails with "Token transfer failed" when
\* transferFrom returns false and with the token's own error when transferFrom
\* reverts.
C3_ShortAllowanceFails ==
    AllowanceShort =>
        /\ C3_NothingHappens
        /\ Ended => /\ result \in {TransferFailed, TokenReverted}
                    /\ result = TransferFailed <=> Made("transferFrom", "false")

\* C3 witness: a call with too small an allowance ended with the require's error.
C3_Witness == AllowanceShort /\ Ended /\ result = TransferFailed

\* C4: if approve returned false after the input tokens were pulled, the call
\* has failed with "Approval failed", the router was not invoked and every
\* balance and allowance, the caller's pulled tokens included, is what it
\* was before the call.
C4_RefusedApprovalRollsBack ==
    Made("approve", "false") =>
        /\ Ended
        /\ result = ApprovalFailed
        /\ swapCalls = <<>>
        /\ RolledBack
        /\ CallerPaid => args.inputAmount = 0

\* C4 witness: tokens were pulled, approve returned false, the call reverted.
C4_Witness ==
    /\ Made("transferFrom", "true") /\ Made("approve", "false")
    /\ args.inputAmount > 0
    /\ result = ApprovalFailed

StepOrder == <<"transferFrom", "approve", "swapExactInputSingle", "require">>

\* C9: the steps of one call occur only in the order pull, approve, swap,
\* check; the router is invoked at most once, only after transferFrom and
\* approve returned true, with an allowance of exactly inputAmount over
\* inputToken and with the parameters the claim lists.
C9_StepsInOrder ==
    /\ Len(steps) <= Len(StepOrder)
    /\ \A i \in 1..Len(steps) : steps[i].op = StepOrder[i]
    /\ \A i \in 1..(Len(steps) - 1) : steps[i].ret \in {"true", "returned"}
    /\ Len(swapCalls) <= 1
    /\ \A i \in 1..Len(swapCalls) :
          /\ swapCalls[i].before = <<[op |-> "transferFrom", ret |-> "true"],
                                     [op |-> "approve", ret |-> "true"]>>
          /\ swapCalls[i].routerAllowance = args.inputAmount
          /\ swapCalls[i].params =
                 [tokenFrom |-> args.inputToken, tokenTo |-> args.outputToken,
                  feeRate |-> 3000, recipient |-> args.receiver,
                  deadline |-> blockTime, inputAmount |-> args.inputAmount,
                  minOutputAmount |-> args.minOutput, priceLimit |-> 0]
    /\ pc = "Approving" => Ops = SubSeq(StepOrder, 1, 1)
    /\ pc = "Swapping" => Ops = SubSeq(StepOrder, 1, 2)
    /\ pc = "Verifying" => Ops = SubSeq(StepOrder, 1, 3)

\* C9 witness: a call went through all four steps and invoked the router once.
C9_Witness == Ops = StepOrder /\ Len(swapCalls) = 1 /\ args.inputAmount > 0


\* ------------------------------------------------------------------------
\*  Claims about the script
\* ------------------------------------------------------------------------

\* Where the requests of a step are in events.
RequestsOf(st) == {i \in 1..Len(events) : events[i].step = st /\ events[i].kind = "request"}

\* Where the approve calls (simulated or sent) are in events.
Approvals ==
    {i \in 1..Len(events) : events[i].step = "approval" /\ events[i].kind \in {"simulate", "write"}}

\* The run is past the approval step.
PastApproval ==
    \/ spc \in {"quote", "print", "done"}
    \/ thrown \in {"quote", "print"}

\* C6: if the price response's issues.allowance is an object, an approve of
\* the reported spender is attempted after the price request and before the
\* quote request; if it is null no approve is attempted; and no approve is
\* ever attempted elsewhere in the run.
C6_ApprovalBetweenPriceAndQuote ==
    /\ (priceData.shape = "object" /\ PastApproval) =>
           \E a \in Approvals :
               events[a].kind = "simulate" /\ events[a].data = priceData.spender
    /\ priceData.shape \in {"none", "null"} => Approvals = {}
    /\ \A a \in Approvals :
          /\ events[a].kind = "simulate" => events[a].data = priceData.spender
          /\ events[a].kind = "write" =>
                 a > 2 /\ events[a - 2] = Request("approval", "simulate", priceData.spender, TRUE)
          /\ \E p \in RequestsOf("price") : p < a /\ events[p].ok
          /\ \A q \in RequestsOf("quote") : a < q

\* C6 witness: an approve of the reported spender was attempted and the
\* quote request was issued after it.
C6_Witness ==
    /\ priceData.shape = "object"
    /\ \E a \in Approvals, q \in RequestsOf("quote") : a < q

\* An approve call (simulated or sent) failed.
ApprovalErrored == \E a \in Approvals : ~events[a].ok

\* C7: a failed approval is caught and logged, and the quote request and the
\* steps after it still run; a failure of any other step escapes
\* mainExecution, and no step after it is executed.
C7_OnlyApprovalFailureIsCaught ==
    /\ thrown # "approval"
    /\ \A a \in Approvals : ~events[a].ok =>
          /\ a < Len(events)
          /\ events[a + 1] = LogError("approval", "Permit2 approval error:")
    /\ ApprovalErrored =>
          /\ PastApproval
          /\ spc = "quote" => ENABLED QuoteRequest
          /\ spc = "print" => ENABLED PrintMetrics
    /\ \A i \in 1..Len(events) :
          (events[i].kind = "request" /\ ~events[i].ok) =>
              /\ thrown = events[i].step
              /\ i = Len(events)
    /\ thrown # "none" =>
          /\ spc = "rejected"
          /\ ~ENABLED NextScript
          /\ \A i \in 1..Len(events) : StepRank(events[i].step) <= StepRank(thrown)
    /\ \A i \in 1..Len(events), j \in 1..Len(events) :
          i < j => StepRank(events[i].step) <= StepRank(events[j].step)

\* C7 witness: the approval failed and the quote request and the metric
\* printing ran all the same.
C7_Witness == ApprovalErrored /\ spc = "done" /\ RequestsOf("quote") # {}

\* C7 witness, second half: the price request failed and the run stopped there.
C7_WitnessAbort == thrown = "price" /\ RequestsOf("price") # {} /\ RequestsOf("quote") = {}

\* One of the three configuration values is absent.
ConfigAbsent == \E k \in EnvKeys : env[k] = "undefined"

\* C8: if one of PRIVATE_KEY, ZERO_EX_API_KEY, ALCHEMY_HTTP_TRANSPORT_URL is
\* absent, the script gets no further than the start-up check, where it ends
\* with a fatal error, and issues no request.
C8_MissingConfigIsFatal ==
    ConfigAbsent =>
        /\ spc \in {"start", "fatal"}
        /\ events = <<>>
        /\ spc = "start" => ENABLED CheckEnv

\* C8 witness: the script ended at the check with only the RPC URL absent.
C8_Witness ==
    /\ spc = "fatal"
    /\ env["ALCHEMY_HTTP_TRANSPORT_URL"] = "undefined"
    /\ env["PRIVATE_KEY"] = "set" /\ env["ZERO_EX_API_KEY"] = "set"

\* The keys of a URLSearchParams, in order.
Keys(params) == [i \in 1..Len(params) |-> params[i][1]]

\* C10: every quote request carries the query of the price request issued
\* before it in the run: the same keys and values in the same order
\* (chainId, sellToken, buyToken, sellAmount, taker, affiliateFee,
\* surplusCollection).
C10_QuoteUsesPriceParams ==
    \A q \in RequestsOf("quote") :
        /\ \E p \in RequestsOf("price") : p < q /\ events[q].data = events[p].data
        /\ quoteQueryParams = priceQueryParams
        /\ Keys(quoteQueryParams) = <<"chainId", "sellToken", "buyToken", "sellAmount",
                                      "taker", "affiliateFee", "surplusCollection">>
        /\ events[q].data = QueryString(quoteQueryParams)

\* C10 witness: a quote request was issued after a failed approval, for a
\* sell amount of 100 units.
C10_Witness ==
    /\ RequestsOf("quote") # {}
    /\ ApprovalErrored
    /\ wethDecimals = 3

====
